---- MODULE Spec2Model ----
(***************************************************************************)
(* The table allocator of convergence-games:                               *)
(* src/convergence_games/algorithm/game_allocator.py, GameAllocator.       *)
(*                                                                         *)
(* allocate() loads the table allocations of one time slot and the session *)
(* preferences attached to them, orders every player's preferences into    *)
(* loss tiers, and then runs n_trials trials.  A trial seats the players   *)
(* in a random order (initial_allocate), fills the tables that are under   *)
(* their minimum from the tables over their sweet spot                     *)
(* (try_make_up_numbers), evaluates the total loss and keeps the best      *)
(* allocation.  Every draw from the module-level `random` generator, which *)
(* allocate() never seeds, is a nondeterministic choice here.              *)
(*                                                                         *)
(* The placement unit of game_allocator.py is one player: every entry of a *)
(* table's list counts as one seat (len(current_allocations[ta_id])).      *)
(***************************************************************************)
EXTENDS Integers, Sequences, FiniteSets, TLC

\* ------------------------------------------------------------ bounds
\* the inputs checked: a time slot of two tables, NumPlayers players with preference
\* rows, player counts of a game up to MaxCapacity
NumPlayers == 2
MaxCapacity == 2
SlotTables == {1, 2}
\* the scores of the rows: 3 is the default score, 20 the golden D20
PreferenceScores == {3, 20}

\* ------------------------------------------------------------ state
VARIABLES
    table_allocation_lookup,        \* ta_id -> game capacities (minimum/optimal/maximum players)
    all_preferences_by_player,      \* player_id -> the player's preference rows (ta_id -> score)
    ordered_preferences_by_player,  \* player_id -> (loss -> list of ta_id)
    pc,                             \* position in allocate()
    seed,                           \* the trial loop variable
    shuffled_player_ids,            \* the players of this trial still to be seated, in order
    current_allocations,            \* ta_id -> list of player_id
    tables_with_too_few_players,    \* the under-minimum tables still to be made up, in order
    best_loss,
    best_allocations,
    best_loss_each_iteration,
    error,                          \* the exception that ended allocate(), if any
    last_step                       \* what the last call printed that it did

vars == << table_allocation_lookup, all_preferences_by_player, ordered_preferences_by_player,
           pc, seed, shuffled_player_ids, current_allocations, tables_with_too_few_players,
           best_loss, best_allocations, best_loss_each_iteration, error, last_step >>

inputs == << table_allocation_lookup, all_preferences_by_player >>

\* the ids of the table allocations of the time slot, and of the players with a row
Tables == DOMAIN table_allocation_lookup
Players == DOMAIN all_preferences_by_player

\* ------------------------------------------------------------ constants of the code
n_trials == 10
NoLoss == -1            \* best_loss = None
NoAllocations == << >>  \* best_allocations = None

\* the table allocations in the order the time slot lists them
all_table_allocations == [i \in 1..Cardinality(Tables) |-> i]

\* ------------------------------------------------------------ helpers
Range(s) == {s[i] : i \in DOMAIN s}

\* every order of the elements of S: random.sample(l, len(l))
Shuffles(S) == {s \in [1..Cardinality(S) -> S] : \A x \in S : \E i \in DOMAIN s : s[i] = x}

RECURSIVE SumSeq(_)
SumSeq(s) == IF s = << >> THEN 0 ELSE Head(s) + SumSeq(Tail(s))

\* list.remove(x): the list without its first x
RECURSIVE Remove(_, _)
Remove(s, x) ==
    IF s = << >> THEN << >>
    ELSE IF Head(s) = x THEN Tail(s) ELSE << Head(s) >> \o Remove(Tail(s), x)

minimum_players(ta_id) == table_allocation_lookup[ta_id].minimum_players
optimal_players(ta_id) == table_allocation_lookup[ta_id].optimal_players
maximum_players(ta_id) == table_allocation_lookup[ta_id].maximum_players

\* ------------------------------------------------------------ preference tiers
\* ScoresDescending without reverse=True: the worst score first
RECURSIVE ScoresAscending(_)
ScoresAscending(scores) ==
    IF scores = {} THEN << >>
    ELSE LET worst == CHOOSE x \in scores : \A y \in scores : x <= y
         IN  << worst >> \o ScoresAscending(scores \ {worst})

\* the distinct scores of the rows, best first: sorted(..., reverse=True) + groupby
RECURSIVE ScoresDescending(_)
ScoresDescending(scores) ==
    IF scores = {} THEN << >>
    ELSE LET best == CHOOSE x \in scores : \A y \in scores : y <= x
         IN  << best >> \o ScoresDescending(scores \ {best})

\* _order_preferences_for_player: every result the random order within a tier allows
OrderPreferencesForPlayer(preferences) ==
    LET scores == ScoresDescending({preferences[t] : t \in DOMAIN preferences})
        group(k) == {t \in DOMAIN preferences : preferences[t] = scores[k + 1]}
        tiers == 0..(Len(scores) - 1)
    IN  {op \in [tiers -> UNION {Shuffles(group(k)) : k \in tiers}] :
            \A k \in tiers : op[k] \in Shuffles(group(k))}

\* loss_by_player_and_table: defined only for the tables the player has a row for
loss_by_player_and_table ==
    [p \in Players |->
        LET op == ordered_preferences_by_player[p]
        IN  [t \in UNION {Range(op[k]) : k \in DOMAIN op} |->
                CHOOSE k \in DOMAIN op : t \in Range(op[k])]]

\* ------------------------------------------------------------ initial_allocate
NoStep == [kind |-> "none", player |-> 0, table |-> 0, loss |-> 0,
           other |-> 0, to |-> 0, moves |-> << >>]

\* sorted(table_allocation_ids, key=maximum_players - len(current_allocations[ta_id])):
\* Python's sort is stable and ascending
MissingPlayers(allocations, ta_id) == maximum_players(ta_id) - Len(allocations[ta_id])

RECURSIVE SortedByMissingPlayers(_, _)
SortedByMissingPlayers(allocations, ta_ids) ==
    IF ta_ids = << >> THEN << >>
    ELSE LET x == Head(ta_ids)
             rest == SortedByMissingPlayers(allocations, Tail(ta_ids))
             Before(t) == MissingPlayers(allocations, t) < MissingPlayers(allocations, x)
             After(t) == ~Before(t)
         IN  SelectSeq(rest, Before) \o << x >> \o SelectSeq(rest, After)

\* HasRoom with the bound off by one
HasRoomOffByOne(allocations, ta_id) == Len(allocations[ta_id]) <= maximum_players(ta_id)

\* len(current_allocations[ta_id]) < maximum_players
HasRoom(allocations, ta_id) == Len(allocations[ta_id]) < maximum_players(ta_id)

\* PoliteTables passing over the tables with one free seat
PoliteTablesTwoFree(allocations, ta_ids) ==
    LET Free(t) == MissingPlayers(allocations, t) >= 2
    IN  SelectSeq(SortedByMissingPlayers(allocations, ta_ids), Free)

\* the polite loop over one tier: the tables of the tier it could append to, first first
PoliteTables(allocations, ta_ids) ==
    LET Free(t) == HasRoom(allocations, t)
    IN  SelectSeq(SortedByMissingPlayers(allocations, ta_ids), Free)

\* OtherTables searching every tier of the other player
OtherTablesAnyTier(allocations, other_player_id, other_ta_loss) ==
    {t \in DOMAIN loss_by_player_and_table[other_player_id] :
        Len(allocations[t]) < maximum_players(t)}

\* the tables of the other player's tier at other_ta_loss that are not full
OtherTables(allocations, other_player_id, other_ta_loss) ==
    {t \in Range(ordered_preferences_by_player[other_player_id][other_ta_loss]) :
        HasRoom(allocations, t)}

\* whether the move loop may move other_player_id off ta_id for a player at our_ta_loss
CanMove(allocations, ta_id, other_player_id, our_ta_loss) ==
    LET other_ta_loss == loss_by_player_and_table[other_player_id][ta_id]
    IN  /\ other_ta_loss >= our_ta_loss
        /\ OtherTables(allocations, other_player_id, other_ta_loss) # {}

\* the move loop at table ta_id: the first player of the list it can move, and the
\* tables the random order of that player's tier may pick
MovesAt(allocations, ta_id, our_ta_loss) ==
    LET movable(o) == CanMove(allocations, ta_id, o, our_ta_loss)
        others == SelectSeq(allocations[ta_id], movable)
    IN  IF others = << >> THEN {}
        ELSE LET o == Head(others)
             IN  {[table |-> ta_id, other |-> o, to |-> t] :
                    t \in OtherTables(allocations, o, loss_by_player_and_table[o][ta_id])}

\* the move loop over one tier: the random order of the tier decides which table with
\* a movable player comes first
Moves(allocations, ta_ids, our_ta_loss) ==
    UNION {MovesAt(allocations, t, our_ta_loss) : t \in Range(ta_ids)}

\* Append1 with the player put at the front of the list
Insert1(allocations, ta_id, player_id) ==
    [allocations EXCEPT ![ta_id] = << player_id >> \o @]

\* line 213: current_allocations[ta_id].append(player_id)
Append1(allocations, ta_id, player_id) ==
    [allocations EXCEPT ![ta_id] = Append(@, player_id)]

\* ApplyMove without the remove
ApplyMoveNoRemove(allocations, player_id, m) ==
    LET moved == [allocations EXCEPT ![m.to] = Append(@, m.other)]
    IN  [moved EXCEPT ![m.table] = Append(@, player_id)]

\* lines 238-240: the other player leaves ta_id for other_ta_id, the player joins ta_id
ApplyMove(allocations, player_id, m) ==
    LET removed == [allocations EXCEPT ![m.table] = Remove(@, m.other)]
        moved == [removed EXCEPT ![m.to] = Append(@, m.other)]
    IN  [moved EXCEPT ![m.table] = Append(@, player_id)]

\* initial_allocate from tier our_ta_loss on: the set of (allocations, success) it can
\* return, each with what it did
RECURSIVE InitialAllocateFrom(_, _, _)
InitialAllocateFrom(allocations, player_id, our_ta_loss) ==
    LET our_preferences == ordered_preferences_by_player[player_id]
    IN  IF our_ta_loss \notin DOMAIN our_preferences
        THEN {[allocations |-> allocations, success |-> FALSE,
               step |-> [NoStep EXCEPT !.kind = "unplaced", !.player = player_id]]}
        ELSE LET ta_ids == our_preferences[our_ta_loss]
                 polite == PoliteTables(allocations, ta_ids)
                 moves == Moves(allocations, ta_ids, our_ta_loss)
             IN  IF polite # << >>
                 THEN {[allocations |-> Append1(allocations, Head(polite), player_id),
                        success |-> TRUE,
                        step |-> [NoStep EXCEPT !.kind = "polite", !.player = player_id,
                                      !.table = Head(polite), !.loss = our_ta_loss]]}
                 ELSE IF moves # {}
                 THEN {[allocations |-> ApplyMove(allocations, player_id, m),
                        success |-> TRUE,
                        step |-> [NoStep EXCEPT !.kind = "move", !.player = player_id,
                                      !.table = m.table, !.loss = our_ta_loss,
                                      !.other = m.other, !.to = m.to]] : m \in moves}
                 ELSE InitialAllocateFrom(allocations, player_id, our_ta_loss + 1)

\* initial_allocate with the loop over the tiers starting at the second tier
initial_allocate_from_second_tier(allocations, player_id) ==
    InitialAllocateFrom(allocations, player_id, 1)

initial_allocate(allocations, player_id) == InitialAllocateFrom(allocations, player_id, 0)

\* ------------------------------------------------------------ try_make_up_numbers
tables_with_more_than_sweet_spot(allocations) ==
    LET Over(t) == Len(allocations[t]) > optimal_players(t)
    IN  SelectSeq(all_table_allocations, Over)

\* the (other_ta_id, other_player_id) pairs the candidate loop visits
VisitedPlayers(allocations, ta_id) ==
    {v \in Tables \X Players :
        /\ v[1] \in Range(tables_with_more_than_sweet_spot(allocations)) \ {ta_id}
        /\ v[2] \in Range(allocations[v[1]])}

\* loss_by_player_and_table[other_player_id][ta_id] raises KeyError for a player
\* with no preference row for ta_id
RaisesKeyError(allocations, ta_id) ==
    \E v \in VisitedPlayers(allocations, ta_id) :
        ta_id \notin DOMAIN loss_by_player_and_table[v[2]]

\* IsPossibleToMove without the check of the tier
IsPossibleToMoveAnyTier(other_ta_id, other_player_id, ta_id) ==
    LET other_ta_loss == loss_by_player_and_table[other_player_id][other_ta_id]
    IN  ~(other_ta_loss > loss_by_player_and_table[other_player_id][ta_id])

\* the filter of the candidate loop
IsPossibleToMove(other_ta_id, other_player_id, ta_id) ==
    LET other_ta_loss == loss_by_player_and_table[other_player_id][other_ta_id]
    IN  /\ ~(other_ta_loss > loss_by_player_and_table[other_player_id][ta_id])
        /\ ta_id \in Range(ordered_preferences_by_player[other_player_id][other_ta_loss])

possible_players_to_move(allocations, ta_id) ==
    {v \in VisitedPlayers(allocations, ta_id) : IsPossibleToMove(v[1], v[2], ta_id)}

\* KeepsSweetSpot with < for <=: the table may go down to one under its optimal
KeepsSweetSpotOffByOne(allocations, other_ta_id, selected) ==
    LET FromHere(m) == m[1] = other_ta_id
        current_players_in_other_ta_if_post_move ==
            Len(allocations[other_ta_id]) - Len(SelectSeq(selected, FromHere))
    IN  ~(current_players_in_other_ta_if_post_move < optimal_players(other_ta_id))

\* whether the selection loop takes a player off other_ta_id, given those selected so far
KeepsSweetSpot(allocations, other_ta_id, selected) ==
    LET FromHere(m) == m[1] = other_ta_id
        current_players_in_other_ta_if_post_move ==
            Len(allocations[other_ta_id]) - Len(SelectSeq(selected, FromHere))
    IN  ~(current_players_in_other_ta_if_post_move <= optimal_players(other_ta_id))

\* SelectPlayers without the break at sweetspot_deficit
RECURSIVE SelectPlayersNoBreak(_, _, _, _, _)
SelectPlayersNoBreak(allocations, candidates, i, selected, sweetspot_deficit) ==
    IF i > Len(candidates) THEN selected
    ELSE IF ~KeepsSweetSpot(allocations, candidates[i][1], selected)
    THEN SelectPlayersNoBreak(allocations, candidates, i + 1, selected, sweetspot_deficit)
    ELSE SelectPlayersNoBreak(allocations, candidates, i + 1,
                              Append(selected, candidates[i]), sweetspot_deficit)

\* the selection loop over the shuffled candidates, from the i-th on
RECURSIVE SelectPlayers(_, _, _, _, _)
SelectPlayers(allocations, candidates, i, selected, sweetspot_deficit) ==
    IF i > Len(candidates) THEN selected
    ELSE IF ~KeepsSweetSpot(allocations, candidates[i][1], selected)
    THEN SelectPlayers(allocations, candidates, i + 1, selected, sweetspot_deficit)
    ELSE LET more == Append(selected, candidates[i])
         IN  IF Len(more) = sweetspot_deficit THEN more
             ELSE SelectPlayers(allocations, candidates, i + 1, more, sweetspot_deficit)

\* NotEnoughSelected with the deficit off by one
NotEnoughSelectedOffByOne(selected, minimum_deficit) == Len(selected) < minimum_deficit - 1

\* len(selected_players_to_move) < minimum_deficit
NotEnoughSelected(selected, minimum_deficit) == Len(selected) < minimum_deficit

RECURSIVE ApplyMoves(_, _, _)
ApplyMoves(allocations, ta_id, selected) ==
    IF selected = << >> THEN allocations
    ELSE LET m == Head(selected)
             removed == [allocations EXCEPT ![m[1]] = Remove(@, m[2])]
         IN  ApplyMoves([removed EXCEPT ![ta_id] = Append(@, m[2])], ta_id, Tail(selected))

\* try_make_up_numbers with every selected player moved as soon as it is selected,
\* before the count of the selected players is checked
try_make_up_numbers_moving_first(allocations, ta_id) ==
    LET minimum_deficit == minimum_players(ta_id) - Len(allocations[ta_id])
        sweetspot_deficit == optimal_players(ta_id) - Len(allocations[ta_id])
        failed(kind) == [allocations |-> allocations, success |-> FALSE,
                         step |-> [NoStep EXCEPT !.kind = kind, !.table = ta_id]]
    IN  IF RaisesKeyError(allocations, ta_id) THEN {failed("key_error")}
        ELSE LET possible == possible_players_to_move(allocations, ta_id)
             IN  IF Cardinality(possible) < minimum_deficit THEN {failed("not_enough")}
                 ELSE {LET selected == SelectPlayers(allocations, candidates, 1, << >>,
                                                     sweetspot_deficit)
                           moved == ApplyMoves(allocations, ta_id, selected)
                       IN  IF NotEnoughSelected(selected, minimum_deficit)
                           THEN [allocations |-> moved, success |-> FALSE,
                                 step |-> [NoStep EXCEPT !.kind = "sweet_spots",
                                               !.table = ta_id, !.moves = selected]]
                           ELSE [allocations |-> moved, success |-> TRUE,
                                 step |-> [NoStep EXCEPT !.kind = "make_up", !.table = ta_id,
                                               !.moves = selected]]
                       : candidates \in Shuffles(possible)}

\* try_make_up_numbers: the set of (allocations, success) it can return, each with what
\* it did; where the code raises KeyError, success is FALSE and the step says so
try_make_up_numbers(allocations, ta_id) ==
    LET minimum_deficit == minimum_players(ta_id) - Len(allocations[ta_id])
        sweetspot_deficit == optimal_players(ta_id) - Len(allocations[ta_id])
        failed(kind) == [allocations |-> allocations, success |-> FALSE,
                         step |-> [NoStep EXCEPT !.kind = kind, !.table = ta_id]]
    IN  IF RaisesKeyError(allocations, ta_id) THEN {failed("key_error")}
        ELSE LET possible == possible_players_to_move(allocations, ta_id)
             IN  IF Cardinality(possible) < minimum_deficit THEN {failed("not_enough")}
                 ELSE {LET selected == SelectPlayers(allocations, candidates, 1, << >>,
                                                     sweetspot_deficit)
                       IN  IF NotEnoughSelected(selected, minimum_deficit)
                           THEN [failed("sweet_spots") EXCEPT !.step.moves = selected]
                           ELSE [allocations |-> ApplyMoves(allocations, ta_id, selected),
                                 success |-> TRUE,
                                 step |-> [NoStep EXCEPT !.kind = "make_up", !.table = ta_id,
                                               !.moves = selected]]
                       : candidates \in Shuffles(possible)}

\* ------------------------------------------------------------ evaluation
\* loss < best_loss taken as loss <= best_loss
IsBetterOrEqual(loss, best) == best = NoLoss \/ loss <= best

\* best_loss is None or loss < best_loss
IsBetter(loss, best) == best = NoLoss \/ loss < best

\* evaluate_total_loss: the losses of the players of every list, added up
evaluate_total_loss(allocations) ==
    SumSeq([i \in 1..Len(all_table_allocations) |->
        SumSeq([j \in 1..Len(allocations[all_table_allocations[i]]) |->
            loss_by_player_and_table[allocations[all_table_allocations[i]][j]]
                                    [all_table_allocations[i]]])])

\* ------------------------------------------------------------ inputs
\* the capacities of a game
Capacities ==
    [minimum_players : 1..MaxCapacity, optimal_players : 1..MaxCapacity,
     maximum_players : 1..MaxCapacity]

\* the rows of one player: a score for some of the tables, at least one (a player
\* enters all_preferences_by_player with their first row)
PreferenceRows == UNION {[S -> PreferenceScores] : S \in (SUBSET SlotTables) \ {{}}}

\* the contract of the inputs: minimum <= optimal <= maximum for every game
ValidCapacities ==
    \A t \in Tables : /\ minimum_players(t) <= optimal_players(t)
                      /\ optimal_players(t) <= maximum_players(t)

EmptyAllocations == [t \in Tables |-> << >>]

Init ==
    /\ table_allocation_lookup \in [SlotTables -> Capacities]
    /\ ValidCapacities
    /\ all_preferences_by_player \in [1..NumPlayers -> PreferenceRows]
    /\ ordered_preferences_by_player = << >>
    /\ pc = "order_preferences"
    /\ seed = 0
    /\ shuffled_player_ids = << >>
    /\ current_allocations = EmptyAllocations
    /\ tables_with_too_few_players = << >>
    /\ best_loss = NoLoss
    /\ best_allocations = NoAllocations
    /\ best_loss_each_iteration = << >>
    /\ error = "none"
    /\ last_step = NoStep

\* ------------------------------------------------------------ actions
\* lines 185-194 and 331-335: the tiers are ordered once, before the trial loop
OrderPreferences ==
    /\ pc = "order_preferences"
    /\ ordered_preferences_by_player' \in
         {op \in [Players -> UNION {OrderPreferencesForPlayer(all_preferences_by_player[p]) :
                                        p \in Players}] :
            \A p \in Players : op[p] \in OrderPreferencesForPlayer(all_preferences_by_player[p])}
    /\ seed' = 1
    /\ pc' = "trial"
    /\ UNCHANGED << inputs, shuffled_player_ids, current_allocations,
                    tables_with_too_few_players, best_loss, best_allocations,
                    best_loss_each_iteration, error, last_step >>

\* StartTrial with current_allocations built once, before the loop over the trials: a
\* trial starts from the lists the trial before left
StartTrialKeepingAllocations ==
    /\ pc = "trial"
    /\ shuffled_player_ids' \in Shuffles(Players)
    /\ last_step' = NoStep
    /\ pc' = "initial_allocate"
    /\ UNCHANGED << inputs, ordered_preferences_by_player, seed, current_allocations,
                    tables_with_too_few_players, best_loss, best_allocations,
                    best_loss_each_iteration, error >>

\* lines 336-343: a trial starts from empty lists and a fresh order of the players
StartTrial ==
    /\ pc = "trial"
    /\ current_allocations' = EmptyAllocations
    /\ shuffled_player_ids' \in Shuffles(Players)
    /\ last_step' = NoStep
    /\ pc' = "initial_allocate"
    /\ UNCHANGED << inputs, ordered_preferences_by_player, seed,
                    tables_with_too_few_players, best_loss, best_allocations,
                    best_loss_each_iteration, error >>

\* an exception leaves allocate(): nothing catches it; current_allocations is what the
\* failed call returned (lines 346 and 376 bind it before success is tested)
Raise(exception, step, allocations) ==
    /\ pc' = "raised"
    /\ error' = exception
    /\ last_step' = step
    /\ current_allocations' = allocations
    /\ UNCHANGED << inputs, ordered_preferences_by_player, seed, shuffled_player_ids,
                    tables_with_too_few_players, best_loss,
                    best_allocations, best_loss_each_iteration >>

\* lines 345-353: one pass of the loop over shuffled_player_ids
InitialAllocate ==
    /\ pc = "initial_allocate"
    /\ shuffled_player_ids # << >>
    /\ \E r \in initial_allocate(current_allocations, Head(shuffled_player_ids)) :
         IF r.success
         THEN /\ current_allocations' = r.allocations
              /\ shuffled_player_ids' = Tail(shuffled_player_ids)
              /\ last_step' = r.step
              /\ UNCHANGED << inputs, ordered_preferences_by_player, pc, seed,
                              tables_with_too_few_players, best_loss, best_allocations,
                              best_loss_each_iteration, error >>
         ELSE Raise("ValueError: Failed to allocate all players", r.step, r.allocations)

\* lines 357-367: the assertion and the list of the tables under their minimum
CheckTables ==
    /\ pc = "initial_allocate"
    /\ shuffled_player_ids = << >>
    /\ LET TooMany(t) == Len(current_allocations[t]) > maximum_players(t)
           TooFew(t) == Len(current_allocations[t]) < minimum_players(t)
       IN  IF SelectSeq(all_table_allocations, TooMany) # << >>
           THEN Raise("AssertionError", NoStep, current_allocations)
           ELSE /\ tables_with_too_few_players' = SelectSeq(all_table_allocations, TooFew)
                /\ pc' = "make_up_numbers"
                /\ last_step' = NoStep
                /\ UNCHANGED << inputs, ordered_preferences_by_player, seed,
                                shuffled_player_ids, current_allocations, best_loss,
                                best_allocations, best_loss_each_iteration, error >>

\* lines 372-383: one pass of the loop over tables_with_too_few_players
MakeUpNumbers ==
    /\ pc = "make_up_numbers"
    /\ tables_with_too_few_players # << >>
    /\ \E r \in try_make_up_numbers(current_allocations, Head(tables_with_too_few_players)) :
         IF r.success
         THEN /\ current_allocations' = r.allocations
              /\ tables_with_too_few_players' = Tail(tables_with_too_few_players)
              /\ last_step' = r.step
              /\ UNCHANGED << inputs, ordered_preferences_by_player, pc, seed,
                              shuffled_player_ids, best_loss, best_allocations,
                              best_loss_each_iteration, error >>
         ELSE IF r.step.kind = "key_error"
         THEN Raise("KeyError", r.step, r.allocations)
         ELSE Raise("ValueError: Failed to make up numbers", r.step, r.allocations)

\* lines 384-396, and the loop's next pass or its end: after the loop over
\* tables_with_too_few_players the list is built again from the lists as they are now
\* (lines 384-387), then the loss is evaluated (391-396)
EvaluateTrial ==
    /\ pc = "make_up_numbers"
    /\ tables_with_too_few_players = << >>
    /\ LET TooFew(t) == Len(current_allocations[t]) < minimum_players(t)
       IN  tables_with_too_few_players' = SelectSeq(all_table_allocations, TooFew)
    /\ LET loss == evaluate_total_loss(current_allocations)
           better == IsBetter(loss, best_loss)
       IN  /\ best_loss' = IF better THEN loss ELSE best_loss
           /\ best_allocations' = IF better THEN current_allocations ELSE best_allocations
           /\ best_loss_each_iteration' =
                Append(best_loss_each_iteration, IF better THEN loss ELSE best_loss)
    /\ last_step' = NoStep
    /\ IF seed = n_trials
       THEN pc' = "done" /\ seed' = seed
       ELSE pc' = "trial" /\ seed' = seed + 1
    /\ UNCHANGED << inputs, ordered_preferences_by_player, shuffled_player_ids,
                    current_allocations, error >>

Next ==
    \/ OrderPreferences
    \/ StartTrial
    \/ InitialAllocate
    \/ CheckTables
    \/ MakeUpNumbers
    \/ EvaluateTrial

Spec == Init /\ [][Next]_vars

\* a run on three tables and three players who each have a row for every table:
\* the first two players' rows are fixed, the third player's and the capacities
\* are any
ThreeTables == {1, 2, 3}

InitThreeTables ==
    /\ table_allocation_lookup \in [ThreeTables -> Capacities]
    /\ ValidCapacities
    /\ all_preferences_by_player \in [{1, 2, 3} -> [ThreeTables -> PreferenceScores]]
    /\ all_preferences_by_player[1] = [t \in ThreeTables |-> IF t = 1 THEN 20 ELSE 3]
    /\ all_preferences_by_player[2] = [t \in ThreeTables |-> IF t = 2 THEN 3 ELSE 20]
    /\ ordered_preferences_by_player = << >>
    /\ pc = "order_preferences"
    /\ seed = 0
    /\ shuffled_player_ids = << >>
    /\ current_allocations = EmptyAllocations
    /\ tables_with_too_few_players = << >>
    /\ best_loss = NoLoss
    /\ best_allocations = NoAllocations
    /\ best_loss_each_iteration = << >>
    /\ error = "none"
    /\ last_step = NoStep

SpecThreeTables == InitThreeTables /\ [][Next]_vars

\* a run on two tables of up to RepairCapacity players and RepairPlayers players, each
\* of whom scores table 2 at 3 and table 1 at 3 or at 20
RepairPlayers == 3
RepairCapacity == 3

InitRepair ==
    /\ table_allocation_lookup \in
         [SlotTables -> [minimum_players : 1..RepairCapacity,
                         optimal_players : 1..RepairCapacity,
                         maximum_players : 1..RepairCapacity]]
    /\ ValidCapacities
    /\ all_preferences_by_player \in
         [1..RepairPlayers -> {[t \in SlotTables |-> IF t = 1 THEN score ELSE 3] :
                                 score \in PreferenceScores}]
    /\ ordered_preferences_by_player = << >>
    /\ pc = "order_preferences"
    /\ seed = 0
    /\ shuffled_player_ids = << >>
    /\ current_allocations = EmptyAllocations
    /\ tables_with_too_few_players = << >>
    /\ best_loss = NoLoss
    /\ best_allocations = NoAllocations
    /\ best_loss_each_iteration = << >>
    /\ error = "none"
    /\ last_step = NoStep

SpecRepair == InitRepair /\ [][Next]_vars

\* a run on three tables of one to two players and three players: the first has
\* rows of any scores for any of the tables, the second and the third score their
\* own table at 20, table 1 at 3 and the other table at 5
AllScores == {0, 1, 2, 3, 4, 5, 20}

InitTiers ==
    /\ table_allocation_lookup =
         [t \in ThreeTables |-> [minimum_players |-> 1, optimal_players |-> 1,
                                 maximum_players |-> 2]]
    /\ all_preferences_by_player \in
         {[p \in {1, 2, 3} |->
              IF p = 1 THEN rows
              ELSE [t \in ThreeTables |-> IF t = p THEN 20 ELSE IF t = 1 THEN 3 ELSE 5]] :
            rows \in UNION {[S -> AllScores] : S \in (SUBSET ThreeTables) \ {{}}}}
    /\ ordered_preferences_by_player = << >>
    /\ pc = "order_preferences"
    /\ seed = 0
    /\ shuffled_player_ids = << >>
    /\ current_allocations = EmptyAllocations
    /\ tables_with_too_few_players = << >>
    /\ best_loss = NoLoss
    /\ best_allocations = NoAllocations
    /\ best_loss_each_iteration = << >>
    /\ error = "none"
    /\ last_step = NoStep

SpecTiers == InitTiers /\ [][Next]_vars

\* the inputs of the scenarios of single players on two tables, A = 1 and B = 2
Game(minimum, optimal, maximum) ==
    [minimum_players |-> minimum, optimal_players |-> optimal, maximum_players |-> maximum]

\* every one of n players scores A at a and B at b
SameRows(n, a, b) == [p \in 1..n |-> << a, b >>]

Scenario2 == [tables |-> << Game(1, 2, 2), Game(1, 2, 3) >>, preferences |-> SameRows(4, 5, 3)]
Scenario3 == [tables |-> << Game(2, 3, 5), Game(2, 2, 3) >>, preferences |-> SameRows(5, 5, 4)]
Scenario4 ==
    [tables |-> << Game(1, 1, 1), Game(3, 3, 3) >>,
     preferences |-> << << 5, 0 >>, << 0, 5 >>, << 0, 5 >>, << 0, 5 >> >>]
Scenario5 == [tables |-> << Game(1, 2, 3), Game(1, 2, 3) >>, preferences |-> SameRows(1, 20, 5)]

\* the run is on the input of the scenario
RunsOn(scenario) ==
    /\ table_allocation_lookup = scenario.tables
    /\ all_preferences_by_player = scenario.preferences

InitScenarios ==
    /\ \E scenario \in {Scenario2, Scenario3, Scenario4, Scenario5} :
         /\ table_allocation_lookup = scenario.tables
         /\ all_preferences_by_player = scenario.preferences
    /\ ordered_preferences_by_player = << >>
    /\ pc = "order_preferences"
    /\ seed = 0
    /\ shuffled_player_ids = << >>
    /\ current_allocations = EmptyAllocations
    /\ tables_with_too_few_players = << >>
    /\ best_loss = NoLoss
    /\ best_allocations = NoAllocations
    /\ best_loss_each_iteration = << >>
    /\ error = "none"
    /\ last_step = NoStep

SpecScenarios == InitScenarios /\ [][Next]_vars

\* a run on the inputs of Init and on those whose capacities break
\* minimum <= optimal <= maximum: allocate() takes what the time slot holds
InitAnyCapacities ==
    /\ table_allocation_lookup \in [SlotTables -> Capacities]
    /\ all_preferences_by_player \in [1..NumPlayers -> PreferenceRows]
    /\ ordered_preferences_by_player = << >>
    /\ pc = "order_preferences"
    /\ seed = 0
    /\ shuffled_player_ids = << >>
    /\ current_allocations = EmptyAllocations
    /\ tables_with_too_few_players = << >>
    /\ best_loss = NoLoss
    /\ best_allocations = NoAllocations
    /\ best_loss_each_iteration = << >>
    /\ error = "none"
    /\ last_step = NoStep

SpecAnyCapacities == InitAnyCapacities /\ [][Next]_vars

\* ------------------------------------------------------------ properties
\* how often player_id is in the lists of allocations
Occurrences(allocations, player_id) ==
    LET Is(x) == x = player_id
    IN  SumSeq([i \in 1..Len(all_table_allocations) |->
                   Len(SelectSeq(allocations[all_table_allocations[i]], Is))])

Seated(allocations) == UNION {Range(allocations[t]) : t \in DOMAIN allocations}

TableOf(allocations, player_id) ==
    CHOOSE t \in DOMAIN allocations : player_id \in Range(allocations[t])

LossAt(allocations, player_id) ==
    loss_by_player_and_table[player_id][TableOf(allocations, player_id)]

EverySeatedOnce(allocations) ==
    /\ Seated(allocations) \subseteq Players
    /\ \A p \in Players : Occurrences(allocations, p) = 1

\* the trial loop has passed line 387 for the lists in current_allocations
TrialSucceeded ==
    \/ pc = "make_up_numbers" /\ tables_with_too_few_players = << >>
    \/ pc \in {"trial", "done"} /\ best_loss_each_iteration # << >>

\* C1: once initial_allocate has succeeded for every player, through the moves of
\* initial_allocate and try_make_up_numbers, and in the best allocation kept and
\* printed at the end, every player is in exactly one table's list exactly once;
\* while players are being seated, those seated are there once and the others not
\* at all.
C1_EveryPlayerSeatedOnce ==
    /\ pc = "initial_allocate" =>
         \A p \in Players :
            Occurrences(current_allocations, p) =
                IF p \in Range(shuffled_player_ids) THEN 0 ELSE 1
    /\ pc = "make_up_numbers" => EverySeatedOnce(current_allocations)
    /\ TrialSucceeded => EverySeatedOnce(current_allocations)
    /\ best_allocations # NoAllocations => EverySeatedOnce(best_allocations)

\* try_make_up_numbers has just moved a player, and every player is seated once
C1_SeatedOnceAfterMoves ==
    /\ last_step.kind = "make_up"
    /\ Len(last_step.moves) > 0
    /\ EverySeatedOnce(current_allocations)

\* C2: no table's list is ever longer than the game's maximum_players: after every
\* call of initial_allocate (polite or moving a player), after every
\* try_make_up_numbers, and in the best allocation kept.
C2_NeverOverMaximum ==
    /\ \A t \in Tables : Len(current_allocations[t]) <= maximum_players(t)
    /\ best_allocations # NoAllocations =>
         \A t \in Tables : Len(best_allocations[t]) <= maximum_players(t)

\* a player has just been moved off a full table, which is full again
C2_FullTableAfterMove ==
    /\ last_step.kind = "move"
    /\ Len(current_allocations[last_step.table]) = maximum_players(last_step.table)
    /\ Len(current_allocations[last_step.to]) <= maximum_players(last_step.to)

\* C3: when a trial has succeeded, every table has at least minimum_players players
\* or none.
C3_MinimumMetOnSuccess ==
    TrialSucceeded =>
        \A t \in Tables :
            \/ Len(current_allocations[t]) >= minimum_players(t)
            \/ Len(current_allocations[t]) = 0

\* a trial has succeeded after try_make_up_numbers moved players
C3_SucceededAfterMakeUp ==
    /\ pc = "make_up_numbers"
    /\ tables_with_too_few_players = << >>
    /\ last_step.kind = "make_up"
    /\ Len(last_step.moves) > 0

\* a pass of the loop over shuffled_player_ids that seated its player
InitialAllocateStep ==
    /\ pc = "initial_allocate"
    /\ pc' = "initial_allocate"
    /\ shuffled_player_ids' # shuffled_player_ids

\* C4: in one call of initial_allocate no player seated before it has a greater
\* loss after it, and a player it moved has the same loss at the new table as at the
\* old one.
C4_InitialAllocateKeepsLosses ==
    [][InitialAllocateStep =>
        \A h \in Seated(current_allocations) :
            /\ h \in Seated(current_allocations')
            /\ LossAt(current_allocations', h) <= LossAt(current_allocations, h)
            /\ TableOf(current_allocations', h) # TableOf(current_allocations, h) =>
                 LossAt(current_allocations', h) = LossAt(current_allocations, h)]_vars

\* initial_allocate has just moved a player to another table
C4_PlayerMoved ==
    /\ last_step.kind = "move"
    /\ last_step.other \in Range(current_allocations[last_step.to])
    /\ last_step.player \in Range(current_allocations[last_step.table])

\* a pass of the loop over tables_with_too_few_players that made up the numbers
MakeUpStep ==
    /\ pc = "make_up_numbers"
    /\ pc' = "make_up_numbers"
    /\ tables_with_too_few_players' # tables_with_too_few_players

\* C5: a player try_make_up_numbers moves to the table under its minimum has no
\* greater loss there than at the table the player came from.
C5_MakeUpKeepsLosses ==
    [][MakeUpStep =>
        \A h \in Seated(current_allocations) :
            TableOf(current_allocations', h) # TableOf(current_allocations, h) =>
                /\ TableOf(current_allocations', h) = Head(tables_with_too_few_players)
                /\ LossAt(current_allocations', h) <= LossAt(current_allocations, h)]_vars

\* try_make_up_numbers has just moved a player to the table under its minimum
C5_PlayerMovedToMakeUp ==
    /\ last_step.kind = "make_up"
    /\ Len(last_step.moves) > 0
    /\ last_step.moves[1][2] \in Range(current_allocations[last_step.table])

\* the sum, over the tables and the players seated at each, of the player's loss
\* there (every player is one seat)
RECURSIVE SeatLossSum(_, _)
SeatLossSum(allocations, players) ==
    IF players = {} THEN 0
    ELSE LET p == CHOOSE x \in players : TRUE
         IN  LossAt(allocations, p) + SeatLossSum(allocations, players \ {p})

\* an input on which the order of the players decides who gets table 1: two tables
\* of one seat, two players who both score table 1 at 20 and table 2 at 3
SameInput ==
    /\ table_allocation_lookup =
         [t \in {1, 2} |-> [minimum_players |-> 1, optimal_players |-> 1,
                            maximum_players |-> 1]]
    /\ all_preferences_by_player = [p \in {1, 2} |-> [t \in {1, 2} |-> IF t = 1 THEN 20 ELSE 3]]

\* what a run on SameInput prints as its best allocation when its first trial draws
\* player 1 first
OneRunOutput == << << 1 >>, << 2 >> >>

\* C6: two runs on the same tables, players and preferences print the same best
\* allocation and the same best loss: every run on SameInput ends with the output of
\* the run OneRunOutput comes from.
C6_SameInputSameOutput ==
    (SameInput /\ pc = "done") =>
        best_allocations = OneRunOutput /\ best_loss = 1

\* a run on SameInput has ended with OneRunOutput
C6_OneRunReached ==
    /\ SameInput
    /\ pc = "done"
    /\ best_allocations = OneRunOutput
    /\ best_loss = 1

\* C8 as stated: a failed trial does not end the run, which ends in error only after
\* all n_trials trials have failed.
C8_ErrorOnlyAfterAllTrialsFailed ==
    pc = "raised" => seed = n_trials /\ best_loss_each_iteration = << >>

\* a trial failed after an earlier trial had succeeded, and the run ended in error
C8_RaisedAfterSuccess ==
    /\ pc = "raised"
    /\ seed > 1
    /\ best_loss # NoLoss
    /\ Len(best_loss_each_iteration) = seed - 1

\* the step from line 391 to the next pass of the trial loop, or to its end
EvaluateStep ==
    /\ pc = "make_up_numbers"
    /\ pc' \in {"trial", "done"}

RECURSIVE NonIncreasing(_)
NonIncreasing(s) ==
    Len(s) < 2 \/ (s[1] >= s[2] /\ NonIncreasing(Tail(s)))

\* C9: at the end of a trial the best allocation is replaced exactly when the
\* trial's loss is strictly less than the best loss so far (a tie keeps the earlier
\* allocation), so the best loss is the minimum over the trials so far, never
\* increases, and is the loss of the allocation kept.
C9_BestIsMinimum ==
    [][EvaluateStep =>
        LET loss == SeatLossSum(current_allocations, Seated(current_allocations))
            first == best_loss = NoLoss
        IN  /\ (first \/ loss < best_loss) =>
                 best_loss' = loss /\ best_allocations' = current_allocations
            /\ ~(first \/ loss < best_loss) =>
                 best_loss' = best_loss /\ best_allocations' = best_allocations
            /\ ~first => best_loss' <= best_loss
            /\ best_loss' <= loss
            /\ best_loss' = SeatLossSum(best_allocations', Seated(best_allocations'))
            /\ NonIncreasing(best_loss_each_iteration')
            /\ best_loss_each_iteration'[Len(best_loss_each_iteration')] = best_loss']_vars

\* a later trial had the loss of the best so far, and the earlier allocation was kept
C9_TieKeptEarlier ==
    /\ pc \in {"trial", "done"}
    /\ Len(best_loss_each_iteration) >= 2
    /\ best_allocations # current_allocations
    /\ best_loss = SeatLossSum(current_allocations, Seated(current_allocations))

\* a later trial had a loss strictly less than the best so far and replaced it
C9_LaterTrialReplacedBest ==
    /\ pc \in {"trial", "done"}
    /\ Len(best_loss_each_iteration) >= 2
    /\ best_loss_each_iteration[Len(best_loss_each_iteration) - 1] > best_loss
    /\ best_allocations = current_allocations

\* the sum of maximum_players over the tables
TotalMaximum ==
    SumSeq([i \in 1..Len(all_table_allocations) |->
                maximum_players(all_table_allocations[i])])

\* C10: initial_allocate fails to seat a player only when there are more players
\* than the sum of maximum_players; with at most that many players every player is
\* seated, whatever the order.
C10_UnplacedOnlyOverCapacity ==
    (pc = "raised" /\ error = "ValueError: Failed to allocate all players") =>
        Cardinality(Players) > TotalMaximum

\* C11: try_make_up_numbers never takes a table below its optimal_players: every
\* table it took players from still has at least optimal_players players, and no
\* table that had its minimum_players before the call is under it after the call.
C11_DonorsKeepOptimal ==
    [][MakeUpStep =>
        \A d \in Tables :
            /\ Len(current_allocations'[d]) < Len(current_allocations[d]) =>
                 Len(current_allocations'[d]) >= optimal_players(d)
            /\ Len(current_allocations[d]) >= minimum_players(d) =>
                 Len(current_allocations'[d]) >= minimum_players(d)]_vars

\* try_make_up_numbers has just taken a player from a table, which is now at its
\* optimal_players exactly
C11_DonorAtOptimal ==
    /\ last_step.kind = "make_up"
    /\ \E i \in 1..Len(last_step.moves) :
         Len(current_allocations[last_step.moves[i][1]]) =
            optimal_players(last_step.moves[i][1])

\* C12: when try_make_up_numbers succeeds for a table under its minimum, it moves to
\* it at least minimum_players - len and at most optimal_players - len players, so
\* the table then has between minimum_players and optimal_players players.
C12_MovesBetweenDeficits ==
    [][MakeUpStep =>
        LET ta_id == Head(tables_with_too_few_players)
            before == Len(current_allocations[ta_id])
            after == Len(current_allocations'[ta_id])
        IN  /\ after - before = Len(last_step'.moves)
            /\ after - before >= minimum_players(ta_id) - before
            /\ after - before <= optimal_players(ta_id) - before
            /\ minimum_players(ta_id) <= after
            /\ after <= optimal_players(ta_id)]_vars

\* try_make_up_numbers stopped at optimal_players - len moves although a further
\* candidate could have been taken from the table the players came from
C12_StoppedAtSweetSpot ==
    /\ last_step.kind = "make_up"
    /\ Len(current_allocations[last_step.table]) = optimal_players(last_step.table)
    /\ \E i \in 1..Len(last_step.moves) :
         Len(current_allocations[last_step.moves[i][1]]) >
            optimal_players(last_step.moves[i][1])

\* the tables of the tiers of a player, as a set per tier
TierTables(player_id, k) == Range(ordered_preferences_by_player[player_id][k])

\* C13: for every player and any two tables a, b the player has rows for, a higher
\* score of a than of b gives a a lower tier index than b and an equal score the
\* same; the tier indices are 0, 1, 2, ... without a gap, every table with a row is
\* in one tier once, tier 0 holds exactly the tables of the player's highest score
\* (a 20 before every 0 to 5), and the loss of a table is the index of its tier.
C13_TiersFollowScores ==
    pc # "order_preferences" =>
        \A p \in Players :
            LET preferences == all_preferences_by_player[p]
                tiers == ordered_preferences_by_player[p]
                loss == loss_by_player_and_table[p]
                scores == {preferences[t] : t \in DOMAIN preferences}
            IN  /\ DOMAIN tiers = 0..(Cardinality(scores) - 1)
                /\ \A k \in DOMAIN tiers : tiers[k] # << >>
                /\ DOMAIN loss = DOMAIN preferences
                /\ \A t \in DOMAIN preferences :
                     \A k \in DOMAIN tiers :
                        Len(SelectSeq(tiers[k], LAMBDA x : x = t)) =
                            IF k = loss[t] THEN 1 ELSE 0
                /\ \A a, b \in DOMAIN preferences :
                     /\ preferences[a] > preferences[b] => loss[a] < loss[b]
                     /\ preferences[a] = preferences[b] => loss[a] = loss[b]
                /\ TierTables(p, 0) =
                     {t \in DOMAIN preferences :
                        \A u \in DOMAIN preferences : preferences[u] <= preferences[t]}

\* a player's rows have three scores, 20 and two of 0 to 5, in three tiers
C13_ThreeTiersUnderTwenty ==
    /\ pc # "order_preferences"
    /\ \E p \in Players :
         /\ DOMAIN ordered_preferences_by_player[p] = 0..2
         /\ all_preferences_by_player[p][ordered_preferences_by_player[p][0][1]] = 20
         /\ all_preferences_by_player[p][ordered_preferences_by_player[p][1][1]] = 5
         /\ all_preferences_by_player[p][ordered_preferences_by_player[p][2][1]] = 0

\* C14: a table of the time slot for which a player has no row counts as scored 3:
\* the player has a loss for every table of the slot, and a table without a row has
\* the loss of the tables the player scores 3, after those scored higher and before
\* those scored lower.
C14_MissingRowIsScoreThree ==
    pc # "order_preferences" =>
        \A p \in Players :
            \A t \in Tables :
                LET preferences == all_preferences_by_player[p]
                    loss == loss_by_player_and_table[p]
                IN  /\ t \in DOMAIN loss
                    /\ t \notin DOMAIN preferences =>
                         \A u \in DOMAIN preferences :
                            /\ preferences[u] = 3 => loss[u] = loss[t]
                            /\ preferences[u] > 3 => loss[u] < loss[t]
                            /\ preferences[u] < 3 => loss[u] > loss[t]

\* the run ended with the KeyError of the loss of a table a player has no row for
C14_KeyErrorRaised ==
    /\ pc = "raised"
    /\ error = "KeyError"
    /\ \E p \in Players : last_step.table \notin DOMAIN all_preferences_by_player[p]

\* a pass of the loop over shuffled_player_ids that appended its player to a table
\* with room
PoliteStep == InitialAllocateStep /\ last_step'.kind = "polite"

\* a pass of the loop over shuffled_player_ids that moved another player
MoveStep == InitialAllocateStep /\ last_step'.kind = "move"

\* C15: a player seated politely at a tier is seated at a table whose remaining
\* capacity maximum_players - len is the greatest among the tables of that tier.
C15_PoliteAtMostRemaining ==
    [][PoliteStep =>
        \A t \in TierTables(last_step'.player, last_step'.loss) :
            MissingPlayers(current_allocations, t) <=
                MissingPlayers(current_allocations, last_step'.table)]_vars

\* a player has just been seated politely at a table that had fewer free seats than
\* another table of the same tier
C15_PoliteAtLeastRemaining ==
    /\ last_step.kind = "polite"
    /\ \E t \in TierTables(last_step.player, last_step.loss) \ {last_step.table} :
         MissingPlayers(current_allocations, t) >
            MissingPlayers(current_allocations, last_step.table) + 1

\* C16 as stated: initial_allocate moves another player only if no table of any
\* tier of the player being seated has room.
C16_MoveOnlyWhenNoTableHasRoom ==
    [][MoveStep =>
        \A t \in DOMAIN loss_by_player_and_table[last_step'.player] :
            Len(current_allocations[t]) >= maximum_players(t)]_vars

\* C16 as amended: initial_allocate goes tier by tier, and at a tier it moves
\* another player only if no table of that tier or of a better tier of the player
\* being seated has room; a table of a worse tier may have room.
C16_MoveOnlyWhenTiersSoFarFull ==
    [][MoveStep =>
        \A t \in DOMAIN loss_by_player_and_table[last_step'.player] :
            loss_by_player_and_table[last_step'.player][t] <= last_step'.loss =>
                Len(current_allocations[t]) >= maximum_players(t)]_vars

\* another player has just been moved although a table of a worse tier of the
\* player being seated has room
C16_MovedWhileWorseTierHadRoom ==
    /\ last_step.kind = "move"
    /\ \E t \in DOMAIN loss_by_player_and_table[last_step.player] :
         /\ loss_by_player_and_table[last_step.player][t] > last_step.loss
         /\ Len(current_allocations[t]) < maximum_players(t)

C18_Scenario5SeatedAtA ==
    RunsOn(Scenario5) =>
        /\ pc # "raised"
        /\ pc = "done" => best_allocations = << << 1 >>, << >> >> /\ best_loss = 0

\* the run on Scenario 5 has seated the player at A with loss 0 and has ended with
\* "Failed to make up numbers" for the empty table B
C18_Scenario5Raised ==
    /\ RunsOn(Scenario5)
    /\ pc = "raised"
    /\ error = "ValueError: Failed to make up numbers"
    /\ last_step.table = 2
    /\ current_allocations = << << 1 >>, << >> >>
    /\ LossAt(current_allocations, 1) = 0

\* C19: an input that breaks minimum <= optimal <= maximum for a table is rejected
\* before any trial runs: no trial is started and no player is seated.
C19_InvalidInputRejected ==
    ~ValidCapacities =>
        /\ pc \in {"order_preferences", "trial", "raised"}
        /\ pc = "raised" => error = "InvalidInput"
        /\ shuffled_player_ids = << >>
        /\ current_allocations = EmptyAllocations
        /\ best_loss_each_iteration = << >>

\* a run on tables that break minimum <= optimal <= maximum has gone through all
\* its trials and kept a best allocation
C19_InvalidInputAllocated ==
    /\ ~ValidCapacities
    /\ pc = "done"
    /\ best_allocations # NoAllocations

\* some player has a tier of more than one table, so that the tier has more than one
\* order
SomeTierHasOrders ==
    \E p \in Players :
        \E k \in DOMAIN ordered_preferences_by_player[p] :
            Len(ordered_preferences_by_player[p][k]) > 1

\* C20: at the start of every trial the order within the tiers is drawn again, so a
\* trial can start with another order within a tier than the trial before it:
\* wherever a trial after the first is about to start and a tier has more than one
\* order, the trial can start with tiers in another order than the trial before.
C20_TiersDrawnAgainEachTrial ==
    (pc = "trial" /\ seed > 1 /\ SomeTierHasOrders) =>
        ENABLED (StartTrial /\ ordered_preferences_by_player' # ordered_preferences_by_player)

\* a later trial seats players by tiers of more than one table, in the order drawn
\* before the first trial
C20_LaterTrialSameTiers ==
    /\ pc = "initial_allocate"
    /\ seed > 1
    /\ SomeTierHasOrders
    /\ \A p \in Players :
         ordered_preferences_by_player[p] \in
            OrderPreferencesForPlayer(all_preferences_by_player[p])

\* C21: when initial_allocate seats a player at a table of tier k, politely or by
\* moving another player, every table of the player's tiers before k was full at that
\* moment: one more player would have put it over its maximum
C21_BetterTiersWereFull ==
    [][InitialAllocateStep =>
         LET player_id == last_step'.player
         IN  \A k \in DOMAIN ordered_preferences_by_player[player_id] :
                k < last_step'.loss =>
                   \A ta_id \in Range(ordered_preferences_by_player[player_id][k]) :
                      Len(current_allocations[ta_id]) + 1 > maximum_players(ta_id)]_vars

\* a player was seated at a table of their second tier or a later one
C21_SeatedBelowFirstTier ==
    /\ last_step.kind \in {"polite", "move"}
    /\ last_step.loss >= 1
    /\ last_step.player \in Range(current_allocations[last_step.table])

\* C22: a trial starts from lists that are all empty; best_allocations and best_loss
\* change only at the end of a trial whose loss is strictly under best_loss (or the
\* first to end), and become that trial's allocation and loss; no other step of any
\* trial changes them, and the capacities and the preferences never change
C22_TrialsKeepBestAndInputs ==
    [][/\ (pc = "trial" /\ pc' = "initial_allocate") =>
            \A ta_id \in Tables : current_allocations'[ta_id] = << >>
       /\ (best_allocations' # best_allocations \/ best_loss' # best_loss) =>
            /\ EvaluateStep
            /\ best_loss = NoLoss \/ evaluate_total_loss(current_allocations) < best_loss
            /\ best_allocations' = current_allocations
            /\ best_loss' = evaluate_total_loss(current_allocations)
       /\ table_allocation_lookup' = table_allocation_lookup
       /\ all_preferences_by_player' = all_preferences_by_player]_vars

\* a later trial has seated its players differently from the allocation kept as best
C22_LaterTrialDiffersFromBest ==
    /\ seed >= 2
    /\ pc = "make_up_numbers"
    /\ best_allocations # NoAllocations
    /\ Players \subseteq Seated(current_allocations)
    /\ current_allocations # best_allocations

\* a pass of the loop over tables_with_too_few_players whose try_make_up_numbers
\* failed, for too few candidates or for too few players selected
MakeUpFails ==
    /\ pc = "make_up_numbers"
    /\ pc' = "raised"
    /\ last_step'.kind \in {"not_enough", "sweet_spots"}

\* C23: when try_make_up_numbers fails for a table under its minimum, no move is made
\* for it: every list is what it was before the call
C23_FailedMakeUpMovesNobody ==
    [][MakeUpFails => current_allocations' = current_allocations]_vars

\* try_make_up_numbers has failed after it selected a player it could have moved
C23_SelectedPlayerNotMoved ==
    /\ pc = "raised"
    /\ last_step.kind = "sweet_spots"
    /\ Len(last_step.moves) > 0
    /\ last_step.moves[1][2] \in Range(current_allocations[last_step.moves[1][1]])

\* C24: every player try_make_up_numbers moves has the same loss at the table it is
\* moved to as at the table it is taken from, so the total loss of the allocation is
\* the same after the call as before it, and after the whole loop over
\* tables_with_too_few_players as after the loop over shuffled_player_ids
C24_MakeUpKeepsTotalLoss ==
    [][MakeUpStep =>
         /\ \A i \in 1..Len(last_step'.moves) :
               LET other_ta_id == last_step'.moves[i][1]
                   other_player_id == last_step'.moves[i][2]
               IN  loss_by_player_and_table[other_player_id][last_step'.table] =
                      loss_by_player_and_table[other_player_id][other_ta_id]
         /\ evaluate_total_loss(current_allocations') =
               evaluate_total_loss(current_allocations)]_vars

\* one call of try_make_up_numbers has moved two players to the table under its minimum
C24_TwoPlayersMoved ==
    /\ last_step.kind = "make_up"
    /\ Len(last_step.moves) >= 2
    /\ \A i \in 1..Len(last_step.moves) :
          last_step.moves[i][2] \in Range(current_allocations[last_step.table])

\* the players in the lists of an allocation, counted
RECURSIVE NumberSeated(_, _)
NumberSeated(allocations, ta_ids) ==
    IF ta_ids = {} THEN 0
    ELSE LET ta_id == CHOOSE t \in ta_ids : TRUE
         IN  Len(allocations[ta_id]) + NumberSeated(allocations, ta_ids \ {ta_id})

\* a pass of the loop over shuffled_player_ids whose initial_allocate did not succeed
InitialAllocateFails ==
    /\ pc = "initial_allocate"
    /\ pc' = "raised"
    /\ last_step'.kind = "unplaced"

\* C25: an initial_allocate call that seats its player changes the allocation in one
\* of two ways only: the player is appended to one list and no other list changes, or
\* one player of a list is removed from it and appended to one other list and the
\* player is appended to the first list, every further list unchanged; either way one
\* more player is seated. A call that fails changes no list
C25_InitialAllocateChangesOnlyItsTables ==
    [][/\ InitialAllocateStep =>
            LET player_id == last_step'.player
                Appended ==
                    \E ta_id \in Tables :
                       current_allocations' =
                          [current_allocations EXCEPT ![ta_id] = Append(@, player_id)]
                MovedAndAppended ==
                    \E ta_id \in Tables :
                       \E other_ta_id \in Tables \ {ta_id} :
                          \E other_player_id \in Range(current_allocations[ta_id]) :
                             current_allocations' =
                                [current_allocations EXCEPT
                                   ![ta_id] = Append(Remove(@, other_player_id), player_id),
                                   ![other_ta_id] = Append(@, other_player_id)]
            IN  /\ Appended \/ MovedAndAppended
                /\ NumberSeated(current_allocations', Tables) =
                      NumberSeated(current_allocations, Tables) + 1
       /\ InitialAllocateFails => current_allocations' = current_allocations]_vars

\* initial_allocate has moved another player to seat its player: each of the two is
\* the last of the list it was appended to
C25_MovedAndSeatedLast ==
    /\ last_step.kind = "move"
    /\ last_step.table # last_step.to
    /\ current_allocations[last_step.table] # << >>
    /\ current_allocations[last_step.to] # << >>
    /\ LET ours == current_allocations[last_step.table]
           theirs == current_allocations[last_step.to]
       IN  /\ ours[Len(ours)] = last_step.player
           /\ theirs[Len(theirs)] = last_step.other

====
